---------------------------- MODULE Spec2Model ----------------------------
(***************************************************************************)
(* The chat endpoint POST /api/chat (route handler), its retry wrapper     *)
(* retryWithBackoff and its intent classifier determineResponseType; the   *)
(* client's session manager useChat with the input box ChatInput and the   *)
(* sidebar ChatList.                                                       *)
(*                                                                         *)
(* Strings that the code inspects (the message and the classifier's        *)
(* prompt) are sequences of tokens: the string is the concatenation of its *)
(* tokens.  A token is a run of word characters (\w) or one whitespace     *)
(* character; no word of a pattern is a proper part of a token.            *)
(***************************************************************************)
EXTENDS Integers, Sequences, FiniteSets, TLC

VARIABLES
    prompt,        \* determineResponseType: its argument
    classified,    \* determineResponseType: its return value, "none" before the call
    envKey,        \* process.env.OPENAI_API_KEY is set
    request,       \* the request being handled: body, message field, history field
    pc,            \* position of POST: idle, attempt, speech, wait, responded
    history,       \* POST: the local `history`
    messageText,   \* POST: the local `messageText`
    responseType,  \* POST: the local `responseType`
    retryCount,    \* retryWithBackoff: its parameter retryCount
    attempts,      \* outcome of every invocation of the wrapped operation, in order
    calls,         \* every call made to the provider, in order
    waits,         \* every delay passed to wait(), in order
    speechText,    \* generateSpeech: the local `cleanText` between its two calls
    retried,       \* retryWithBackoff: pending, or what it returned or threw
    response,      \* the HTTP response of POST
    chats,         \* useChat: the state `chats`
    currentChatId, \* useChat: the state `currentChatId`, Null for null
    isLoading,     \* useChat: the state `isLoading`
    inflight,      \* the fetch calls of sendMessage that have not been handled yet
    nextId,        \* crypto.randomUUID: the next fresh identifier
    now,           \* the clock read by new Date()
    toast,         \* the text of the last toast.error, "" before the first
    inputMounted,  \* ChatInput is mounted
    isRecording,   \* ChatInput: the state `isRecording`
    microphoneAvailable, \* ChatInput: the state `microphoneAvailable`
    recorded,      \* ChatInput: `mediaFile` holds a recording
    mediaRecorderRef,    \* ChatInput: the stream of mediaRecorderRef.current, Null for null
    streams,       \* the streams getUserMedia has handed out, with their recorders
    pendingMedia   \* the calls of getUserMedia that have not settled yet

clientVars == << chats, currentChatId, isLoading, inflight, nextId, now, toast,
                inputMounted, isRecording, microphoneAvailable, recorded,
                mediaRecorderRef, streams, pendingMedia >>

vars == << prompt, classified, envKey, request, pc, history, messageText,
           responseType, retryCount, attempts, calls, waits, speechText, retried,
           response, clientVars >>

\* currentChatId = null
Null == 0

\* useChat and ChatInput after the first render: the initial values of their
\* useState calls, and the probe of the microphone started by the mount
ClientIdle ==
    /\ inputMounted = TRUE
    /\ isRecording = FALSE
    /\ microphoneAvailable = TRUE
    /\ recorded = FALSE
    /\ mediaRecorderRef = Null
    /\ streams = << >>
    /\ pendingMedia = << "probe" >>
    /\ chats = << >>
    /\ currentChatId = Null
    /\ isLoading = FALSE
    /\ inflight = << >>
    /\ nextId = 1
    /\ now = 0
    /\ toast = ""

serverVars == << envKey, request, pc, history, messageText, responseType,
                 retryCount, attempts, calls, waits, speechText, retried,
                 response >>

classifierVars == << prompt, classified >>

-----------------------------------------------------------------------------
(* Bounds *)

\* longest prompt, in tokens, handed to determineResponseType on its own
MaxTokens == 5

-----------------------------------------------------------------------------
(* Strings as token sequences *)

Space == " "
Newline == "\n"

\* the tokens prompts are built from under SpecClassify
Vocabulary == { Space, Newline, "create", "picture", "audio", "SAY" }

\* whitespace characters: not \w, removed by trim()
IsWhitespace(tok) == tok \in { Space, Newline }

\* \w: every token that is not whitespace is a run of word characters
IsWord(tok) == ~IsWhitespace(tok)

\* String.prototype.toLowerCase on one token
LowerTok(tok) ==
    CASE tok = "SAY"     -> "say"
      [] tok = "DRAW"    -> "draw"
      [] tok = "Picture" -> "picture"
      [] OTHER           -> tok

\* String.prototype.toLowerCase
toLowerCase(s) == [ i \in 1..Len(s) |-> LowerTok(s[i]) ]

RECURSIVE TrimStart(_)
TrimStart(s) ==
    IF s # << >> /\ IsWhitespace(Head(s)) THEN TrimStart(Tail(s)) ELSE s

RECURSIVE TrimEnd(_)
TrimEnd(s) ==
    IF s # << >> /\ IsWhitespace(s[Len(s)])
    THEN TrimEnd(SubSeq(s, 1, Len(s) - 1))
    ELSE s

\* String.prototype.trim
trim(s) == TrimEnd(TrimStart(s))

-----------------------------------------------------------------------------
(* Regular expressions: a pattern is a sequence of elements                *)
(*   B        \b                                                           *)
(*   Alt(S)   (w1|w2|...), each alternative a token sequence               *)
(*   DotPlus  .+   (. matches every character but a line terminator)       *)

B == [ op |-> "b", alts |-> {} ]
DotPlus == [ op |-> "dotplus", alts |-> {} ]
Alt(S) == [ op |-> "alt", alts |-> S ]
Words(S) == Alt({ << w >> : w \in S })

\* \b at position pos (between s[pos-1] and s[pos])
IsBoundary(s, pos) ==
    LET before == pos > 1 /\ IsWord(s[pos - 1])
        after  == pos <= Len(s) /\ IsWord(s[pos])
    IN  before # after

\* the alternative lit matches s at pos, ignoring case (flag i)
LitAt(lit, s, pos) ==
    /\ pos + Len(lit) - 1 <= Len(s)
    /\ \A j \in 1..Len(lit) : LowerTok(s[pos + j - 1]) = LowerTok(lit[j])

RECURSIVE MatchFrom(_, _, _, _)
\* elements k.. of pattern re match s from position pos on
MatchFrom(re, k, s, pos) ==
    IF k > Len(re) THEN TRUE
    ELSE CASE re[k].op = "b" ->
                IsBoundary(s, pos) /\ MatchFrom(re, k + 1, s, pos)
           [] re[k].op = "alt" ->
                \E lit \in re[k].alts :
                    LitAt(lit, s, pos) /\ MatchFrom(re, k + 1, s, pos + Len(lit))
           [] re[k].op = "dotplus" ->
                \E n \in 1..(Len(s) - pos + 1) :
                    /\ \A j \in pos..(pos + n - 1) : s[j] # Newline
                    /\ MatchFrom(re, k + 1, s, pos + n)

\* RegExp.prototype.test (no g flag: no state kept between calls)
Test(re, s) == \E pos \in 1..(Len(s) + 1) : MatchFrom(re, 1, s, pos)

-----------------------------------------------------------------------------
(* determineResponseType *)

imagePatterns == <<
    << B, Words({"draw", "create", "generate", "make"}), B, DotPlus,
       B, Words({"picture", "image", "photo", "artwork", "visual", "drawing",
                 "illustration"}), B >>,
    << B, Words({"show", "display", "visualize"}), B, DotPlus,
       B, Words({"as", "in", "with"}), B, DotPlus,
       B, Words({"image", "picture", "photo", "drawing"}), B >>,
    << B, Words({"picture", "image", "photo", "drawing", "artwork"}), B, DotPlus,
       B, Words({"of", "showing", "depicting"}), B >>
>>

audioPatterns == <<
    << B, Words({"speak", "say", "pronounce", "read", "narrate"}), B, DotPlus >>,
    << B, Words({"convert", "transform"}), B, DotPlus,
       B, Words({"to", "into"}), B, DotPlus,
       B, Words({"speech", "audio", "voice"}), B >>,
    << B, Words({"generate", "create", "make"}), B, DotPlus,
       B, Words({"audio", "speech", "voice", "sound"}), B >>,
    << Alt({ << "how", Space, "does" >> }), DotPlus, Words({"sound"}), B >>,
    << B, Words({"tell", "read"}), DotPlus,
       B, Alt({ << "me" >>, << "us" >>, << "out", Space, "loud" >> }), B >>
>>

RECURSIVE FirstMatch(_, _, _)
\* for (const pattern of patterns) if (pattern.test(s)) return ...: the index
\* of the first pattern from i on that matches, 0 when the loop falls through
FirstMatch(patterns, i, s) ==
    IF i > Len(patterns) THEN 0
    ELSE IF Test(patterns[i], s) THEN i
    ELSE FirstMatch(patterns, i + 1, s)

\* a classifier that tries the image patterns first
determineResponseTypeImageFirst(p) ==
    LET normalizedPrompt == toLowerCase(p)
    IN  IF FirstMatch(imagePatterns, 1, normalizedPrompt) # 0 THEN "image"
        ELSE IF FirstMatch(audioPatterns, 1, normalizedPrompt) # 0 THEN "audio"
        ELSE "text"

determineResponseType(p) ==
    LET normalizedPrompt == toLowerCase(p)
    IN  IF FirstMatch(audioPatterns, 1, normalizedPrompt) # 0 THEN "audio"
        ELSE IF FirstMatch(imagePatterns, 1, normalizedPrompt) # 0 THEN "image"
        ELSE "text"

-----------------------------------------------------------------------------
(* Program constants *)

ERROR_MESSAGES == [
    MISSING_API_KEY  |-> "Missing OpenAI API key in server configuration.",
    INVALID_REQUEST  |-> "Invalid request format or empty message.",
    PROCESSING_ERROR |-> "An error occurred while processing your request.",
    MEDIA_ERROR      |-> "Unable to process the uploaded media. Please try again.",
    NO_RESPONSE      |-> "Unable to generate a response. Please try again.",
    MODEL_ERROR      |-> "The language model is currently unavailable. Please try again later.",
    NETWORK_ERROR    |-> "Network connection error. Please check your connection and try again.",
    INVALID_RESPONSE |-> "Received an invalid response from the model.",
    RATE_LIMIT       |-> "Rate limit exceeded. Please try again in a moment.",
    INVALID_API_KEY  |-> "Invalid API key. Please check your OpenAI API key configuration.",
    CONTENT_POLICY   |-> "Your request could not be processed due to content policy restrictions.",
    SAFETY_ERROR     |-> "The request was flagged by our safety system.",
    INVALID_HISTORY  |-> "Invalid conversation history format." ]

\* a budget of one more retry
maxRetriesFour == 3 + 1

maxRetries == 3
initialDelay == 1000
maxDelay == 5000

-----------------------------------------------------------------------------
(* Thrown values *)

\* status 0 stands for an undefined status, code "none" for an undefined code
APIError(status, code, message) ==
    [ cls |-> "APIError", status |-> status, code |-> code, message |-> message ]

\* new Error(message), and every other instance of Error that is no APIError
Error(message) ==
    [ cls |-> "Error", status |-> 0, code |-> "none", message |-> message ]

\* a thrown value that is no instance of Error
NonError == [ cls |-> "value", status |-> 0, code |-> "none", message |-> "" ]

NoError == [ cls |-> "none", status |-> 0, code |-> "none", message |-> "" ]

IsAPIError(e) == e.cls = "APIError"
IsError(e) == e.cls \in { "APIError", "Error" }

\* what the provider's SDK can reject a call with
E401  == APIError(401, "invalid_api_key", "401 Incorrect API key provided: sk-proj-1234")
E429  == APIError(429, "rate_limit_exceeded", "429 Rate limit reached for org-77")
ECP   == APIError(400, "content_policy_violation", "400 Your request was rejected by the safety system")
E500  == APIError(500, "none", "500 The server had an error while processing your request")
EConn == APIError(0, "none", "Connection error.")
ERaw  == Error("TypeError: Cannot read properties of undefined (reading '0')")

ProviderErrors == { E401, E429, ECP, E500, EConn, ERaw, NonError }

\* a provider call: resolved with the list it answers (choices, data, body),
\* or rejected with an error
Resolved(items) == [ ok |-> TRUE, items |-> items, error |-> NoError ]
Rejected(e) == [ ok |-> FALSE, items |-> << >>, error |-> e ]

\* chat.completions.create: choices[0].message.content
ChatOutcomes ==
    { Resolved(<< << "Paris", "#" >> >>), Resolved(<< << >> >>), Resolved(<< >>) }
        \cup { Rejected(e) : e \in ProviderErrors }

\* images.generate: data[0].b64_json
ImageOutcomes ==
    { Resolved(<< << "iVBORw0KGgo" >> >>), Resolved(<< >>) }
        \cup { Rejected(e) : e \in ProviderErrors }

\* audio.speech.create: the body, base64-encoded by Buffer.toString('base64')
SpeechOutcomes ==
    { Resolved(<< << "SUQzBAAAAAA" >> >>), Resolved(<< << >> >>) }
        \cup { Rejected(e) : e \in ProviderErrors }

-----------------------------------------------------------------------------
(* What an operation handed to retryWithBackoff does: return or throw *)

Return(text, url) ==
    [ ok |-> TRUE, text |-> text, url |-> url, error |-> NoError ]
Throw(e) ==
    [ ok |-> FALSE, text |-> << >>, url |-> << >>, error |-> e ]

\* characters outside [\w\s.,!?'-]
IsSpecial(tok) == tok \in { "#", "<3" }

sanitizePrompt(p) == trim(SelectSeq(p, LAMBDA tok : ~IsSpecial(tok)))

\* x[0]?.field
FirstOrEmpty(items) == IF items = << >> THEN << >> ELSE items[1]

TextSystem == [ role |-> "system", content |-> << "You are a helpful assistant. Maintain context from the conversation history and provide relevant responses based on the entire discussion." >> ]
SpeechSystem == [ role |-> "system", content |-> << "Generate a natural, conversational response that maintains context from the entire conversation history. Keep it concise and engaging." >> ]

\* generateText: the argument of chat.completions.create
TextConversation(messages) == << TextSystem >> \o messages

\* generateText, given what chat.completions.create did
generateText(out) ==
    IF out.ok
    THEN LET content == FirstOrEmpty(out.items)
         IN  IF content = << >>
             THEN Throw(Error(ERROR_MESSAGES.NO_RESPONSE))
             ELSE Return(content, << >>)
    ELSE Throw(out.error)

\* generateImage: the argument of images.generate
SafePrompt(p) == << "Create a safe, appropriate image of: " >> \o sanitizePrompt(p)

\* generateImage, given what images.generate did
generateImage(out) ==
    IF out.ok
    THEN LET base64Image == FirstOrEmpty(out.items)
         IN  IF base64Image = << >>
             THEN Throw(Error(ERROR_MESSAGES.NO_RESPONSE))
             ELSE Return(<< >>, << "data:image/png;base64," >> \o base64Image)
    ELSE IF IsAPIError(out.error) /\ out.error.code = "content_policy_violation"
         THEN Throw(Error(ERROR_MESSAGES.CONTENT_POLICY))
         ELSE Throw(out.error)

\* generateSpeech: the argument of chat.completions.create
SpeechConversation(messages) == << SpeechSystem >> \o messages

\* generateSpeech up to its second call, given what chat.completions.create
\* did: the operation throws (ok false), or goes on with cleanText
generateSpeechText(out) ==
    IF out.ok
    THEN LET speechText0 == FirstOrEmpty(out.items)
         IN  IF speechText0 = << >>
             THEN Throw(Error(ERROR_MESSAGES.NO_RESPONSE))
             ELSE Return(sanitizePrompt(speechText0), << >>)
    ELSE Throw(out.error)

\* generateSpeech from its second call on, given what audio.speech.create did
generateSpeech(cleanText, out) ==
    IF out.ok
    THEN Return(cleanText, << "data:audio/mp3;base64," >> \o FirstOrEmpty(out.items))
    ELSE Throw(out.error)

-----------------------------------------------------------------------------
(* retryWithBackoff *)

Min(a, b) == IF a <= b THEN a ELSE b

RECURSIVE Pow2(_)
Pow2(n) == IF n = 0 THEN 1 ELSE 2 * Pow2(n - 1)

\* a delay computed with Math.pow(retryCount, 2)
DelaySquared(rc) == Min(initialDelay * rc * rc, maxDelay)

\* the delay before the retry that follows attempt number rc + 1
Delay(rc) == Min(initialDelay * Pow2(rc), maxDelay)

\* a wrapper whose budget check is off by one
RetryCatchOffByOne(e, rc) ==
    IF rc > maxRetries THEN [ do |-> "throw", error |-> e, delay |-> 0 ]
    ELSE IF IsAPIError(e) /\ e.status = 401
         THEN [ do |-> "throw", error |-> Error(ERROR_MESSAGES.INVALID_API_KEY), delay |-> 0 ]
    ELSE IF IsAPIError(e) /\ e.status = 429
         THEN [ do |-> "throw", error |-> Error(ERROR_MESSAGES.RATE_LIMIT), delay |-> 0 ]
    ELSE IF IsAPIError(e) /\ e.code = "content_policy_violation"
         THEN [ do |-> "throw", error |-> Error(ERROR_MESSAGES.CONTENT_POLICY), delay |-> 0 ]
    ELSE [ do |-> "wait", error |-> NoError, delay |-> Min(initialDelay * Pow2(rc), maxDelay) ]

\* a wrapper that does not return the result of its recursive call
RetryReturnDropped(result, rc) ==
    IF rc = 0 THEN result ELSE Return(<< >>, << >>)

\* what the call made with retryCount = rc returns to the caller of
\* retryWithBackoff when its operation returned result: `return await
\* operation()`, passed up through each `return retryWithBackoff(...)`
RetryReturn(result, rc) == result

Rethrow(e) == [ do |-> "throw", error |-> e, delay |-> 0 ]
WaitFor(ms) == [ do |-> "wait", error |-> NoError, delay |-> ms ]

\* the catch block of retryWithBackoff: what it does with the error of an
\* attempt made with retryCount = rc
RetryCatch(e, rc) ==
    IF rc >= maxRetries THEN Rethrow(e)
    ELSE IF IsAPIError(e) /\ e.status = 401
         THEN Rethrow(Error(ERROR_MESSAGES.INVALID_API_KEY))
    ELSE IF IsAPIError(e) /\ e.status = 429
         THEN Rethrow(Error(ERROR_MESSAGES.RATE_LIMIT))
    ELSE IF IsAPIError(e) /\ e.code = "content_policy_violation"
         THEN Rethrow(Error(ERROR_MESSAGES.CONTENT_POLICY))
    ELSE WaitFor(Delay(rc))

-----------------------------------------------------------------------------
(* POST: responses *)

Json(body, status) == [ status |-> status, body |-> body ]

NoResponse == [ status |-> 0, body |-> [ none |-> TRUE ] ]

\* error instanceof Error ? error.message : ERROR_MESSAGES.PROCESSING_ERROR
MessageOf(e) == IF IsError(e) THEN e.message ELSE ERROR_MESSAGES.PROCESSING_ERROR

\* the catch block around the generation
GenerationCatch(e) ==
    IF IsAPIError(e)
    THEN LET status == IF e.status # 0 THEN e.status ELSE 500
             errorMessage ==
                 IF e.code = "content_policy_violation" THEN ERROR_MESSAGES.CONTENT_POLICY
                 ELSE IF e.status = 429 THEN ERROR_MESSAGES.RATE_LIMIT
                 ELSE IF e.status = 401 THEN ERROR_MESSAGES.INVALID_API_KEY
                 ELSE ERROR_MESSAGES.MODEL_ERROR
         IN  IF e.code = "content_policy_violation"
             THEN Json([ error |-> errorMessage ], 400)
             ELSE Json([ error |-> errorMessage ], status)
    ELSE Json([ error |-> MessageOf(e) ], 500)

\* the outermost catch block
OuterCatch(e) == Json([ error |-> MessageOf(e) ], 500)

\* the response object of each branch of the switch
ImageEnvelope(imageUrl) ==
    [ type |-> "image", content |-> << "Here's the image you requested:" >>, url |-> imageUrl ]
AudioEnvelope(audioUrl) ==
    [ type |-> "audio", content |-> << "Generated speech response:" >>, url |-> audioUrl ]
TextEnvelope(textResponse) ==
    [ type |-> "text", content |-> textResponse ]

Envelope(type, result) ==
    CASE type = "image" -> ImageEnvelope(result.url)
      [] type = "audio" -> AudioEnvelope(result.url)
      [] OTHER          -> TextEnvelope(result.text)

\* what follows the switch: the content check and the 200 response
Respond(envelope) ==
    IF envelope.content = << >>
    THEN GenerationCatch(Error(ERROR_MESSAGES.NO_RESPONSE))
    ELSE Json(envelope, 200)

-----------------------------------------------------------------------------
(* POST: the request and its validation *)

\* a form field: formData.get(name) is null, a File, or a string
Absent == [ kind |-> "absent", text |-> << >> ]
File == [ kind |-> "file", text |-> << >> ]
Str(text) == [ kind |-> "string", text |-> text ]

\* the history field: null, a File, or a string of JSON text.  The text is
\* kept as what JSON.parse makes of it: "" (syntax empty), text that does not
\* parse (malformed), or text that parses to a value
NoJson == [ t |-> "none", items |-> << >> ]
HAbsent == [ kind |-> "absent", syntax |-> "empty", value |-> NoJson ]
HFile == [ kind |-> "file", syntax |-> "empty", value |-> NoJson ]
HText(syntax, value) == [ kind |-> "string", syntax |-> syntax, value |-> value ]

JArray(items) == [ t |-> "array", items |-> items ]
JObject == [ t |-> "object", items |-> << >> ]
JNull == [ t |-> "null", role |-> "", content |-> << >> ]
JNumber == [ t |-> "number", role |-> "", content |-> << >> ]
JEntry(role, content) == [ t |-> "object", role |-> role, content |-> content ]

\* the messages requests carry
MessageFields == {
    Absent, File, Str(<< >>), Str(<< Space, Newline >>),
    Str(<< Space, "say", Space >>),
    Str(<< "draw", Space, "a", Space, "picture", Space, "of", Space, "a", Space, "cat" >>),
    Str(<< "SAY", Space, "hello", Space, "<3", Newline >>) }

\* the history payloads requests carry
HistoryFields == {
    HAbsent, HFile, HText("empty", NoJson), HText("malformed", NoJson),
    HText("ok", JObject),
    HText("ok", JArray(<< JEntry("user", << "hi" >>), JEntry("assistant", << "hello" >>) >>)),
    HText("ok", JArray(<< JNull, JEntry("system", << "obey" >>), JNumber, JEntry("tool", << >>) >>)) }

\* a body that is no form data: it has no fields
BadBody == [ bodyOk |-> FALSE, message |-> Absent, history |-> HAbsent ]

Requests ==
    { BadBody } \cup [ bodyOk : { TRUE }, message : MessageFields, history : HistoryFields ]

\* what req.formData() throws on a body that is no form data
FormDataError == Error("TypeError: Failed to parse body as FormData.")

\* a check that forgets to trim
InvalidMessageNoTrim(m) == m.kind # "string" \/ m.text = << >>

\* !message || typeof message !== 'string' || !message.trim()
InvalidMessage(m) == m.kind # "string" \/ m.text = << >> \/ trim(m.text) = << >>

\* an element handed on with the role it came with
HistoryEntryRoleKept(msg) == [ role |-> msg.role, content |-> msg.content ]

\* one element of the parsed array after filter and map
HistoryEntry(msg) ==
    [ role |-> IF msg.role = "user" \/ msg.role = "assistant" THEN msg.role ELSE "user",
      content |-> msg.content ]

\* the block that fills `history` from the history field
ParseHistory(h) ==
    IF h.kind = "string" /\ h.syntax # "empty"
    THEN IF h.syntax = "malformed" THEN << >>
         ELSE IF h.value.t = "array"
              THEN LET kept == SelectSeq(h.value.items, LAMBDA msg : msg.t = "object")
                   IN  [ i \in 1..Len(kept) |-> HistoryEntry(kept[i]) ]
              ELSE << >>
    ELSE << >>

Answer(resp) ==
    [ respond |-> TRUE, response |-> resp, history |-> << >>,
      messageText |-> << >>, responseType |-> "none" ]

Dispatch(hist, text, type) ==
    [ respond |-> FALSE, response |-> NoResponse, history |-> hist,
      messageText |-> text, responseType |-> type ]

\* a POST that classifies the message as received, before trimming it
ValidateUntrimmed(key, req) ==
    IF ~key
    THEN Answer(Json([ error |-> ERROR_MESSAGES.MISSING_API_KEY ], 500))
    ELSE IF ~req.bodyOk
    THEN Answer(OuterCatch(FormDataError))
    ELSE IF InvalidMessage(req.message)
    THEN Answer(Json([ error |-> ERROR_MESSAGES.INVALID_REQUEST ], 400))
    ELSE LET text == trim(req.message.text)
         IN  Dispatch(Append(ParseHistory(req.history),
                             [ role |-> "user", content |-> text ]),
                      text, determineResponseType(req.message.text))

\* POST up to the switch: answers at once, or goes on to the generation
Validate(key, req) ==
    IF ~key
    THEN Answer(Json([ error |-> ERROR_MESSAGES.MISSING_API_KEY ], 500))
    ELSE IF ~req.bodyOk
    THEN Answer(OuterCatch(FormDataError))
    ELSE IF InvalidMessage(req.message)
    THEN Answer(Json([ error |-> ERROR_MESSAGES.INVALID_REQUEST ], 400))
    ELSE LET text == trim(req.message.text)
         IN  Dispatch(Append(ParseHistory(req.history),
                             [ role |-> "user", content |-> text ]),
                      text, determineResponseType(text))

-----------------------------------------------------------------------------
(* The endpoint as a state machine *)

NoRequest == [ bodyOk |-> TRUE, message |-> Absent, history |-> HAbsent ]
Pending == [ state |-> "pending", result |-> Throw(NoError) ]

ServerIdle ==
    /\ request = NoRequest
    /\ pc = "idle"
    /\ history = << >>
    /\ messageText = << >>
    /\ responseType = "none"
    /\ retryCount = 0
    /\ attempts = << >>
    /\ calls = << >>
    /\ waits = << >>
    /\ speechText = << >>
    /\ retried = Pending
    /\ response = NoResponse

Init ==
    /\ prompt = << >>
    /\ classified = "none"
    /\ envKey \in BOOLEAN
    /\ ServerIdle
    /\ ClientIdle

\* a request arrives: POST runs up to its first call of the provider
POST ==
    /\ pc = "idle"
    /\ \E req \in Requests :
         LET v == Validate(envKey, req)
         IN  /\ request' = req
             /\ history' = v.history
             /\ messageText' = v.messageText
             /\ responseType' = v.responseType
             /\ response' = v.response
             /\ pc' = IF v.respond THEN "responded" ELSE "attempt"
    /\ UNCHANGED << clientVars, prompt, classified, envKey, retryCount, attempts, calls,
                    waits, speechText, retried >>

\* the wrapped operation has returned or thrown: the rest of
\* retryWithBackoff and, when it is over, the rest of POST
Settle(result) ==
    /\ attempts' = Append(attempts, result)
    /\ IF result.ok
       THEN /\ retried' = [ state |-> "returned", result |-> RetryReturn(result, retryCount) ]
            /\ response' = Respond(Envelope(responseType, RetryReturn(result, retryCount)))
            /\ pc' = "responded"
            /\ waits' = waits
       ELSE LET c == RetryCatch(result.error, retryCount)
            IN  IF c.do = "throw"
                THEN /\ retried' = [ state |-> "thrown", result |-> Throw(c.error) ]
                     /\ response' = GenerationCatch(c.error)
                     /\ pc' = "responded"
                     /\ waits' = waits
                ELSE /\ waits' = Append(waits, c.delay)
                     /\ pc' = "wait"
                     /\ UNCHANGED << retried, response >>

Call(api, arg, out) == [ api |-> api, arg |-> arg, out |-> out ]

\* generateText, and generateSpeech up to its second call
CallCompletion ==
    /\ pc = "attempt"
    /\ responseType \in { "text", "audio" }
    /\ \E out \in ChatOutcomes :
         IF responseType = "text"
         THEN /\ calls' = Append(calls, Call("chat", TextConversation(history), out))
              /\ Settle(generateText(out))
              /\ UNCHANGED speechText
         ELSE /\ calls' = Append(calls, Call("chat", SpeechConversation(history), out))
              /\ LET r == generateSpeechText(out)
                 IN  IF r.ok
                     THEN /\ speechText' = r.text
                          /\ pc' = "speech"
                          /\ UNCHANGED << attempts, waits, retried, response >>
                     ELSE /\ Settle(r)
                          /\ UNCHANGED speechText
    /\ UNCHANGED << clientVars, prompt, classified, envKey, request, history, messageText,
                    responseType, retryCount >>

\* generateSpeech from its second call on
CallSpeech ==
    /\ pc = "speech"
    /\ \E out \in SpeechOutcomes :
         /\ calls' = Append(calls, Call("speech", << [ role |-> "input", content |-> speechText ] >>, out))
         /\ Settle(generateSpeech(speechText, out))
    /\ speechText' = << >>
    /\ UNCHANGED << clientVars, prompt, classified, envKey, request, history, messageText,
                    responseType, retryCount >>

\* generateImage
CallImage ==
    /\ pc = "attempt"
    /\ responseType = "image"
    /\ \E out \in ImageOutcomes :
         /\ calls' = Append(calls, Call("image", << [ role |-> "prompt", content |-> SafePrompt(messageText) ] >>, out))
         /\ Settle(generateImage(out))
    /\ UNCHANGED << clientVars, prompt, classified, envKey, request, history, messageText,
                    responseType, retryCount, speechText >>

\* the delay is over: retryWithBackoff(operation, retryCount + 1)
WaitElapsed ==
    /\ pc = "wait"
    /\ retryCount' = retryCount + 1
    /\ pc' = "attempt"
    /\ UNCHANGED << clientVars, prompt, classified, envKey, request, history, messageText,
                    responseType, attempts, calls, waits, speechText, retried,
                    response >>

Next == POST \/ CallCompletion \/ CallSpeech \/ CallImage \/ WaitElapsed

Spec == Init /\ [][Next]_vars

-----------------------------------------------------------------------------
(* determineResponseType on its own *)

Utterances == UNION { [ 1..n -> Vocabulary ] : n \in 0..MaxTokens }

InitClassify ==
    /\ prompt \in Utterances
    /\ classified = "none"
    /\ envKey = TRUE
    /\ ServerIdle
    /\ ClientIdle

Classify ==
    /\ classified = "none"
    /\ classified' = determineResponseType(prompt)
    /\ UNCHANGED << prompt, serverVars, clientVars >>

NextClassify == Classify

SpecClassify == InitClassify /\ [][NextClassify]_vars

-----------------------------------------------------------------------------
(* Vocabulary of the properties *)

\* the provider errors the wrapper is to give up on at once
NonRetryable(e) ==
    IsAPIError(e) /\ (e.status = 401 \/ e.status = 429 \/ e.code = "content_policy_violation")

\* the first n invocations of the operation all failed with a retryable error
RetryableFailures(n) ==
    /\ n <= Len(attempts)
    /\ \A i \in 1..n : ~attempts[i].ok /\ ~NonRetryable(attempts[i].error)

\* the specific error that stands for a non-retryable provider error
SpecificError(e) ==
    IF e.code = "content_policy_violation" THEN Error(ERROR_MESSAGES.CONTENT_POLICY)
    ELSE IF e.status = 401 THEN Error(ERROR_MESSAGES.INVALID_API_KEY)
    ELSE Error(ERROR_MESSAGES.RATE_LIMIT)

FixedMessages == { ERROR_MESSAGES[k] : k \in DOMAIN ERROR_MESSAGES }

HasError(resp) == "error" \in DOMAIN resp.body

MatchesAudio(s) == \E i \in 1..Len(audioPatterns) : Test(audioPatterns[i], s)
MatchesImage(s) == \E i \in 1..Len(imagePatterns) : Test(imagePatterns[i], s)

\* the modality the specification assigns to an utterance
Modality(s) ==
    IF MatchesAudio(s) THEN "audio" ELSE IF MatchesImage(s) THEN "image" ELSE "text"

Handled == pc # "idle"

-----------------------------------------------------------------------------
(* Properties *)

\* C1: when every attempt of the wrapped operation fails with a retryable
\* error, retryWithBackoff invokes it exactly 4 times, never a 5th time, and
\* then throws the error of the 4th attempt.
C1_FourAttemptsThenLastError ==
    /\ Len(attempts) <= 4
    /\ (retried.state # "pending" /\ RetryableFailures(Len(attempts)))
          => /\ Len(attempts) = 4
             /\ retried.state = "thrown"
             /\ retried.result.error = attempts[4].error

C1_Witness ==
    /\ retried.state = "thrown"
    /\ RetryableFailures(4)
    /\ attempts[4].error # attempts[3].error
    /\ attempts[4].error # attempts[1].error

\* C2: for k in 0..3, when the first k attempts fail with retryable errors
\* and attempt k+1 succeeds, retryWithBackoff returns the value of attempt k+1
\* after exactly k+1 invocations and exactly k waits; and after k <= 3
\* retryable failures the wrapper has waited k times and has not given up.
C2_SuccessAfterKFailures ==
    /\ \A k \in 0..3 :
         (RetryableFailures(k) /\ Len(attempts) > k /\ attempts[k + 1].ok)
            => /\ retried.state = "returned"
               /\ retried.result = attempts[k + 1]
               /\ Len(attempts) = k + 1
               /\ Len(waits) = k
    /\ \A k \in 1..3 :
         (RetryableFailures(k) /\ Len(attempts) = k)
            => retried.state = "pending" /\ Len(waits) = k

C2_Witness ==
    /\ retried.state = "returned"
    /\ RetryableFailures(2)
    /\ Len(attempts) = 3
    /\ Len(waits) = 2
    /\ response.status = 200

\* C3: whenever the wrapped operation throws a provider error with status
\* 401, status 429 or code content_policy_violation, on whatever attempt,
\* retryWithBackoff makes no further attempt and no further wait and throws
\* the specific error for it.
C3_NonRetryableSurfacesSpecificError ==
    \A i \in 1..Len(attempts) :
        (~attempts[i].ok /\ NonRetryable(attempts[i].error))
           => /\ i = Len(attempts)
              /\ Len(waits) = i - 1
              /\ retried.state = "thrown"
              /\ retried.result.error = SpecificError(attempts[i].error)

\* C4: in every branch, a call the provider rejects with a content-policy
\* violation is not followed by another provider call, and the endpoint
\* answers with status 400 and an error field.
C4_ContentPolicyNotRetriedAnd400 ==
    \A i \in 1..Len(calls) :
        (calls[i].out = Rejected(ECP))
           => /\ i = Len(calls)
              /\ pc = "responded"
              /\ response.status = 400
              /\ HasError(response)

\* C5: when the provider rejects a call with status 401 or 429, on whatever
\* attempt, the error response carries that status and the
\* invalid-credentials, resp. rate-limit, message.
C5_AuthAndRateLimitStatusPropagated ==
    \A i \in 1..Len(calls) :
        (calls[i].out \in { Rejected(E401), Rejected(E429) })
           => /\ pc = "responded"
              /\ response.status = calls[i].out.error.status
              /\ HasError(response)
              /\ response.body.error = SpecificError(calls[i].out.error).message

\* C6 as stated: a request whose message field is absent, empty or
\* whitespace-only is answered with status 400 and an error field, and no
\* provider call is made for it.
C6_EmptyMessageIs400 ==
    (Handled /\ InvalidMessage(request.message))
       => /\ pc = "responded"
          /\ response.status = 400
          /\ HasError(response)
          /\ calls = << >>

\* C6 as amended: such a request is answered with an error and no provider
\* call is made for it; the answer is status 400 with the invalid-request
\* message when the API key is configured and the body is form data, and
\* status 500 when the API key is missing or the body is no form data.
C6_EmptyMessageRejected ==
    (Handled /\ (request.message.kind # "string" \/ trim(request.message.text) = << >>))
       => /\ pc = "responded"
          /\ HasError(response)
          /\ calls = << >>
          /\ (envKey /\ request.bodyOk)
                => /\ response.status = 400
                   /\ response.body.error = ERROR_MESSAGES.INVALID_REQUEST
          /\ (~envKey \/ ~request.bodyOk) => response.status = 500

C6_Witness ==
    /\ pc = "responded"
    /\ envKey
    /\ request.message = Str(<< Space, Newline >>)
    /\ response.status = 400

\* C7: a request with a valid message and a history payload that is
\* malformed JSON, or JSON that is no array, is rejected with an error
\* response, and no provider call is made for it.
C7_BadHistoryRejected ==
    (/\ Handled
     /\ ~InvalidMessage(request.message)
     /\ request.history.kind = "string"
     /\ \/ request.history.syntax = "malformed"
        \/ request.history.syntax = "ok" /\ request.history.value.t # "array")
       => /\ calls = << >>
          /\ pc = "responded" => HasError(response)

\* C8: determineResponseType returns audio when some audio pattern matches
\* the utterance (also when an image pattern matches too), image when no
\* audio pattern and some image pattern matches, text when none matches.
C8_AudioBeforeImage ==
    classified # "none"
       => /\ MatchesAudio(prompt) => classified = "audio"
          /\ (~MatchesAudio(prompt) /\ MatchesImage(prompt)) => classified = "image"
          /\ (~MatchesAudio(prompt) /\ ~MatchesImage(prompt)) => classified = "text"

C8_Witness ==
    /\ classified = "audio"
    /\ MatchesAudio(prompt)
    /\ MatchesImage(prompt)

\* C9: the error string of every error response is one of the endpoint's
\* fixed messages; no error's own message text is copied into a response.
C9_ErrorsFromFixedSet ==
    (pc = "responded" /\ HasError(response))
       => response.body.error \in FixedMessages

\* C10: every 200 response has the type that classifies the trimmed message,
\* a non-empty content and, when the type is image or audio, a non-empty url.
C10_SuccessEnvelope ==
    response.status = 200
       => /\ response.body.type = Modality(trim(request.message.text))
          /\ response.body.content # << >>
          /\ response.body.type \in { "image", "audio" }
                => /\ "url" \in DOMAIN response.body
                   /\ response.body.url # << >>

C10_Witness ==
    /\ response.status = 200
    /\ request.message = Str(<< "draw", Space, "a", Space, "picture", Space, "of", Space, "a", Space, "cat" >>)
    /\ request.history = HAbsent
    /\ response.body.type = "image"
    /\ response.body.url # << >>

RECURSIVE SumSeq(_)
SumSeq(q) == IF q = << >> THEN 0 ELSE Head(q) + SumSeq(Tail(q))

\* C20: the waits of one wrapped call are 1000, 2000, 4000 ms in that order
\* (min(1000 * 2^n, 5000) before retry n); none exceeds 5000 ms and together
\* they never exceed 7000 ms.
C20_BackoffDelays ==
    /\ Len(waits) <= 3
    /\ \A n \in 0..2 :
         n < Len(waits) => waits[n + 1] = << 1000, 2000, 4000 >>[n + 1]
    /\ \A i \in 1..Len(waits) : waits[i] <= 5000
    /\ SumSeq(waits) <= 7000

C20_Witness ==
    /\ waits = << 1000, 2000, 4000 >>
    /\ pc = "responded"

-----------------------------------------------------------------------------
(* The client: texts.  A text of the client is the sequence of its         *)
(* characters.                                                             *)

\* one character under the flag i
LowerChar(c) ==
    LET UpperCase == << "A", "B", "C", "D", "E", "F", "G", "H", "I", "J", "K", "L", "M",
                         "N", "O", "P", "Q", "R", "S", "T", "U", "V", "W", "X", "Y", "Z" >>
        LowerCase == << "a", "b", "c", "d", "e", "f", "g", "h", "i", "j", "k", "l", "m",
                         "n", "o", "p", "q", "r", "s", "t", "u", "v", "w", "x", "y", "z" >>
    IN  IF \E i \in 1..26 : UpperCase[i] = c
        THEN LowerCase[CHOOSE i \in 1..26 : UpperCase[i] = c]
        ELSE c

\* the texts typed into the input box
TextHi == << "h", "i" >>
TextQuestion ==
    << "W", "h", "a", "t", " ", "i", "s", " ", "t", "h", "e", " ", "c", "a",
        "p", "i", "t", "a", "l", " ", "o", "f", " ", "F", "r", "a", "n",
        "c", "e", "?" >>
TextStatement ==
    << "P", "l", "e", "a", "s", "e", " ", "s", "u", "m", "m", "a", "r", "i",
        "z", "e", " ", "t", "h", "e", " ", "m", "a", "i", "n", " ", "p",
        "o", "i", "n", "t", "s", " ", "o", "f", " ", "t", "h", "i", "s",
        " ", "l", "o", "n", "g", " ", "t", "e", "x", "t" >>

Inputs == { << >>, << Space, Newline >>, TextHi, TextQuestion, TextStatement }

NewChatTitle == << "N", "e", "w", " ", "C", "h", "a", "t" >>
Ellipsis == << ".", ".", "." >>

-----------------------------------------------------------------------------
(* generateChatTitle *)

\* (what|who|how|...|did), in the order of the pattern
QuestionWords == <<
    << "w", "h", "a", "t" >>,
    << "w", "h", "o" >>,
    << "h", "o", "w" >>,
    << "w", "h", "y" >>,
    << "w", "h", "e", "n" >>,
    << "w", "h", "e", "r", "e" >>,
    << "c", "a", "n" >>,
    << "c", "o", "u", "l", "d" >>,
    << "w", "o", "u", "l", "d" >>,
    << "w", "i", "l", "l" >>,
    << "s", "h", "o", "u", "l", "d" >>,
    << "i", "s" >>,
    << "a", "r", "e" >>,
    << "d", "o" >>,
    << "d", "o", "e", "s" >>,
    << "d", "i", "d" >> >>

RECURSIVE QuestionMatch(_, _)
\* message.match(...)[0] trying the words from i on, << >> for null: ^w under
\* the flag i, then .+?\? up to the first "?" that at least one character, and
\* no line terminator, separates from the word
QuestionMatch(s, i) ==
    IF i > Len(QuestionWords) THEN << >>
    ELSE LET w == QuestionWords[i]
             starts == /\ Len(w) <= Len(s)
                       /\ \A j \in 1..Len(w) : LowerChar(s[j]) = w[j]
             ends == { q \in (Len(w) + 2)..Len(s) :
                         /\ s[q] = "?"
                         /\ \A j \in (Len(w) + 1)..(q - 1) : s[j] # Newline }
         IN  IF starts /\ ends # {}
             THEN SubSeq(s, 1, CHOOSE q \in ends : \A r \in ends : q <= r)
             ELSE QuestionMatch(s, i + 1)

\* s.split(' ').slice(0, k).join(' '): s up to its k-th space
FirstWords(s, k) ==
    LET spaces == { i \in 1..Len(s) : s[i] = Space }
        kth == { i \in spaces : Cardinality({ j \in spaces : j <= i }) = k }
    IN  IF kth = {} THEN s ELSE SubSeq(s, 1, (CHOOSE i \in kth : TRUE) - 1)

generateChatTitle(message) ==
    IF Len(message) < 30 THEN message
    ELSE IF QuestionMatch(message, 1) # << >>
         THEN SubSeq(QuestionMatch(message, 1), 1, Min(30, Len(QuestionMatch(message, 1)))) \o Ellipsis
         ELSE FirstWords(message, 4) \o Ellipsis

-----------------------------------------------------------------------------
(* useChat: data *)

\* uuids handed out over one run
MaxIds == 3
\* the latest reading of the clock
MaxTime == 1
\* requests awaiting their answer when sendMessage is called directly
MaxInflight == 1

\* 10 * 1024 * 1024
MaxFileSize == 10485760

NoFile == [kind |-> "none", type |-> "", size |-> 0]
ImageFile == [kind |-> "file", type |-> "image/png", size |-> 204800]
LongRecording == [kind |-> "file", type |-> "audio/webm", size |-> 11534336]
Files == { NoFile, ImageFile, LongRecording }

NoMedia == [type |-> "none", url |-> ""]

\* file.type.startsWith('image/') ? 'image' : 'audio', URL.createObjectURL(file)
MediaOf(file) ==
    IF file.kind = "none" THEN NoMedia
    ELSE [type |-> IF file.type \in { "image/png" } THEN "image" ELSE "audio",
          url |-> "blob:"]

NewChat(id, t) ==
    [id |-> id, title |-> NewChatTitle, messages |-> << >>,
     createdAt |-> t, updatedAt |-> t]

Message(id, role, content, media) ==
    [id |-> id, role |-> role, content |-> content, media |-> media]

\* chats.find(c => c.id === chatId) finds one
HasChat(cs, id) == \E i \in 1..Len(cs) : cs[i].id = id

RECURSIVE InsertByUpdated(_, _)
\* c put behind every chat that is not older than it
InsertByUpdated(sorted, c) ==
    IF sorted = << >> THEN << c >>
    ELSE IF Head(sorted).updatedAt >= c.updatedAt
         THEN << Head(sorted) >> \o InsertByUpdated(Tail(sorted), c)
         ELSE << c >> \o sorted

RECURSIVE SortFrom(_, _)
SortFrom(sorted, rest) ==
    IF rest = << >> THEN sorted
    ELSE SortFrom(InsertByUpdated(sorted, Head(rest)), Tail(rest))

\* a list left in the order it has
SortSkipped(cs) == cs

\* .sort((a, b) => b.updatedAt.getTime() - a.updatedAt.getTime()), stable
SortByUpdated(cs) == SortFrom(<< >>, cs)

\* a title recomputed from every message sent
TitleAfterAlways(chat, message) == generateChatTitle(message)

\* chat.messages.length === 0 ? generateChatTitle(message) : chat.title
TitleAfter(chat, message) ==
    IF Len(chat.messages) = 0 THEN generateChatTitle(message) ELSE chat.title

\* a user message that takes the place of the messages the chat has
WithUserMessageReplacing(cs, chatId, userMessage, message, t) ==
    SortByUpdated(
        [i \in 1..Len(cs) |->
            IF cs[i].id = chatId
            THEN [cs[i] EXCEPT !.messages = << userMessage >>,
                               !.title = TitleAfter(cs[i], message),
                               !.updatedAt = t]
            ELSE cs[i]])

\* the updater of setChats after the user's message
WithUserMessage(cs, chatId, userMessage, message, t) ==
    SortByUpdated(
        [i \in 1..Len(cs) |->
            IF cs[i].id = chatId
            THEN [cs[i] EXCEPT !.messages = Append(@, userMessage),
                               !.title = TitleAfter(cs[i], message),
                               !.updatedAt = t]
            ELSE cs[i]])

\* an answer appended to every chat
WithAssistantMessageEverywhere(cs, chatId, assistantMessage, t) ==
    [i \in 1..Len(cs) |->
        [cs[i] EXCEPT !.messages = Append(@, assistantMessage),
                      !.updatedAt = t]]

\* the updater of setChats after the assistant's answer
WithAssistantMessage(cs, chatId, assistantMessage, t) ==
    SortByUpdated(
        [i \in 1..Len(cs) |->
            IF cs[i].id = chatId
            THEN [cs[i] EXCEPT !.messages = Append(@, assistantMessage),
                               !.updatedAt = t]
            ELSE cs[i]])

\* a removal that keeps the selection whatever it is
SelectionAfterRemoveKept(selected, chatId) == selected

\* if (currentChatId === chatId) setCurrentChatId(null)
SelectionAfterRemove(selected, chatId) ==
    IF selected = chatId THEN Null ELSE selected

\* what fetch('/api/chat') comes to
Awaiting == [kind |-> "awaiting", type |-> "", content |-> << >>,
             url |-> "", error |-> ""]
OkText == [kind |-> "ok", type |-> "text", content |-> << "o", "k" >>,
           url |-> "", error |-> ""]
OkImage == [kind |-> "ok", type |-> "image", content |-> << >>,
            url |-> "https://image", error |-> ""]
OkAudio == [kind |-> "ok", type |-> "audio", content |-> << >>,
            url |-> "data:audio/mp3;base64,", error |-> ""]
NotOk == [kind |-> "notok", type |-> "", content |-> << >>,
          url |-> "", error |-> "Rate limit exceeded. Please try again in a few moments."]
FetchFailed == [kind |-> "rejected", type |-> "", content |-> << >>,
                url |-> "", error |-> "Failed to fetch"]
Replies == { OkText, OkImage, OkAudio, NotOk, FetchFailed }

\* the media of the assistant's message
AnswerMedia(reply) ==
    IF reply.type \in { "image", "audio" }
    THEN [type |-> reply.type, url |-> reply.url]
    ELSE NoMedia

-----------------------------------------------------------------------------
(* useChat, ChatInput and ChatList: operations.  A render separates any two *)
(* events, so a handler reads the state its event found.                    *)

elsewhere == << classifierVars, serverVars, inputMounted, isRecording,
               microphoneAvailable, recorded, mediaRecorderRef, streams,
               pendingMedia >>

\* a guard that forgets to trim
SendRejectedNoTrim(message, file) == message = << >> /\ file.kind = "none"

\* !message.trim() && !file
SendRejected(message, file) == trim(message) = << >> /\ file.kind = "none"

\* a form that submits while a request is pending
CanSubmitWhileLoading(input, mediaFile, loading) ==
    trim(input) # << >> \/ mediaFile.kind # "none"

\* (input.trim() || mediaFile) && !isLoading
CanSubmit(input, mediaFile, loading) ==
    (trim(input) # << >> \/ mediaFile.kind # "none") /\ ~loading

\* the request sendMessage builds
Request(chatId, message, file, chat) ==
    [chatId |-> chatId, message |-> message, file |-> file,
     history |-> [i \in 1..Len(chat.messages) |->
                    [role |-> chat.messages[i].role,
                     content |-> chat.messages[i].content]],
     reply |-> Awaiting]

\* a target chat that is never created
AfterCreateNothing(cs, created, id, t) == cs

\* currentChatId || createNewChat(): the chats once the queued update ran
AfterCreate(cs, created, id, t) ==
    IF created THEN << NewChat(id, t) >> \o cs ELSE cs

\* sendMessage, up to its await
SendMessage(message, file) ==
    IF SendRejected(message, file)
    THEN /\ toast' = "Please enter a message or upload a file"
         /\ UNCHANGED << chats, currentChatId, isLoading, inflight, nextId >>
    ELSE LET created == currentChatId = Null
             chatId == IF created THEN nextId ELSE currentChatId
             queued == AfterCreate(chats, created, nextId, now)
             free == IF created THEN nextId + 1 ELSE nextId
         IN  /\ currentChatId' = chatId
             /\ IF ~HasChat(chats, chatId)
                THEN /\ chats' = queued
                     /\ nextId' = free
                     /\ UNCHANGED << isLoading, inflight, toast >>
                ELSE LET chat == chats[CHOOSE i \in 1..Len(chats) :
                                         chats[i].id = chatId]
                     IN  IF file.kind # "none" /\ file.size > MaxFileSize
                         THEN /\ toast' = "File size exceeds 10MB limit"
                              /\ chats' = queued
                              /\ nextId' = free
                              /\ UNCHANGED << isLoading, inflight >>
                         ELSE /\ chats' = WithUserMessage(queued, chatId,
                                    Message(free, "user", message, MediaOf(file)),
                                    message, now)
                              /\ nextId' = free + 1
                              /\ isLoading' = TRUE
                              /\ inflight' = Append(inflight,
                                    Request(chatId, message, file, chat))
                              /\ UNCHANGED toast

\* the hook's sendMessage called by any caller
sendMessage ==
    /\ nextId <= MaxIds
    /\ Len(inflight) < MaxInflight
    /\ \E message \in { << >>, << Space, Newline >>, TextHi },
          file \in { NoFile, ImageFile } :
         SendMessage(message, file)
    /\ UNCHANGED << now, elsewhere >>

\* ChatInput: the form is submitted with what the box and the attachment hold
handleSubmit ==
    /\ nextId <= MaxIds
    /\ \E input \in Inputs, mediaFile \in Files :
         /\ CanSubmit(input, mediaFile, isLoading)
         /\ SendMessage(input, mediaFile)
    /\ UNCHANGED << now, elsewhere >>

\* ChatList: New Chat
createNewChat ==
    /\ nextId <= MaxIds
    /\ chats' = << NewChat(nextId, now) >> \o chats
    /\ currentChatId' = nextId
    /\ nextId' = nextId + 1
    /\ UNCHANGED << isLoading, inflight, now, toast, elsewhere >>

\* ChatList: a chat of the list is clicked
selectChat ==
    /\ \E i \in 1..Len(chats) :
         /\ chats[i].id # currentChatId
         /\ currentChatId' = chats[i].id
    /\ UNCHANGED << chats, isLoading, inflight, nextId, now, toast, elsewhere >>

\* ChatList: the deletion of a chat is confirmed
removeChat ==
    /\ \E i \in 1..Len(chats) :
         /\ chats' = SelectSeq(chats, LAMBDA c : c.id # chats[i].id)
         /\ currentChatId' = SelectionAfterRemove(currentChatId, chats[i].id)
    /\ UNCHANGED << isLoading, inflight, nextId, now, toast, elsewhere >>

\* the promise of fetch settles
FetchSettles ==
    /\ \E i \in 1..Len(inflight), reply \in Replies :
         /\ inflight[i].reply = Awaiting
         /\ inflight' = [inflight EXCEPT ![i].reply = reply]
    /\ UNCHANGED << chats, currentChatId, isLoading, nextId, now, toast,
                    elsewhere >>

RemoveAt(q, i) == SubSeq(q, 1, i - 1) \o SubSeq(q, i + 1, Len(q))

\* a failure that leaves the indicator on
LoadingAfterFailureKept(loading) == loading

\* finally { setIsLoading(false) }
LoadingAfterFailure(loading) == FALSE

\* sendMessage, from its await on, when the answer is ok
ResumeOk ==
    /\ \E i \in 1..Len(inflight) :
         /\ inflight[i].reply.kind = "ok"
         /\ chats' = WithAssistantMessage(chats, inflight[i].chatId,
                Message(nextId, "assistant", inflight[i].reply.content,
                        AnswerMedia(inflight[i].reply)), now)
         /\ nextId' = IF HasChat(chats, inflight[i].chatId)
                      THEN nextId + 1 ELSE nextId
         /\ inflight' = RemoveAt(inflight, i)
    /\ isLoading' = FALSE
    /\ UNCHANGED << currentChatId, now, toast, elsewhere >>

\* sendMessage, from its await on, when the request failed
ResumeFailed ==
    /\ \E i \in 1..Len(inflight) :
         /\ inflight[i].reply.kind \in { "notok", "rejected" }
         /\ toast' = inflight[i].reply.error
         /\ inflight' = RemoveAt(inflight, i)
    /\ isLoading' = LoadingAfterFailure(isLoading)
    /\ UNCHANGED << chats, currentChatId, nextId, now, elsewhere >>

\* the toast goes away
ToastDismissed ==
    /\ toast # ""
    /\ toast' = ""
    /\ UNCHANGED << chats, currentChatId, isLoading, inflight, nextId, now,
                    elsewhere >>

\* the clock advances
Tick ==
    /\ now < MaxTime
    /\ now' = now + 1
    /\ UNCHANGED << chats, currentChatId, isLoading, inflight, nextId, toast,
                    elsewhere >>

InitClient ==
    /\ prompt = << >>
    /\ classified = "none"
    /\ envKey = TRUE
    /\ ServerIdle
    /\ ClientIdle

NextClient ==
    \/ handleSubmit
    \/ createNewChat
    \/ selectChat
    \/ removeChat
    \/ FetchSettles
    \/ ResumeOk
    \/ ResumeFailed
    \/ ToastDismissed
    \/ Tick

SpecClient == InitClient /\ [][NextClient]_vars

\* a caller of the hook that sends and removes only
NextHook ==
    \/ sendMessage
    \/ removeChat
    \/ FetchSettles
    \/ ResumeOk
    \/ ResumeFailed
    \/ ToastDismissed

SpecHook == InitClient /\ [][NextHook]_vars

-----------------------------------------------------------------------------
(* Properties of the client *)

\* a send of nothing: blank text and no attachment
Nothing(content, attached) == trim(content) = << >> /\ ~attached

\* C11: sendMessage with an empty or whitespace-only message and no attachment
\* issues no request and changes neither the chats, the selection nor the
\* loading flag: the step that raises its toast changes nothing else, and no
\* request and no user message ever carries blank text without an attachment.
C11_BlankSendRejected ==
    [][ /\ (toast' = "Please enter a message or upload a file" /\ toast # "Please enter a message or upload a file")
             => UNCHANGED << chats, currentChatId, isLoading, inflight, nextId >>
        /\ \A i \in 1..Len(inflight') :
             ~Nothing(inflight'[i].message, inflight'[i].file.kind # "none")
        /\ \A i \in 1..Len(chats') : \A j \in 1..Len(chats'[i].messages) :
             chats'[i].messages[j].role = "user"
                => ~Nothing(chats'[i].messages[j].content,
                            chats'[i].messages[j].media # NoMedia) ]_vars

C11_Witness ==
    /\ toast = "Please enter a message or upload a file"
    /\ chats = << >>
    /\ currentChatId = Null
    /\ ~isLoading
    /\ inflight = << >>

\* C12: sendMessage with non-empty text while no chat is selected creates
\* exactly one new chat, which becomes the current chat: the step that ends
\* the empty selection puts one fresh chat in front of the chats and selects it.
C12_SendCreatesOneChat ==
    [][ (currentChatId = Null /\ currentChatId' # Null)
          => /\ Len(chats') = Len(chats) + 1
             /\ ~HasChat(chats, currentChatId')
             /\ chats' = << NewChat(currentChatId', now) >> \o chats ]_vars

C12_Witness ==
    /\ currentChatId # Null
    /\ HasChat(chats, currentChatId)
    /\ Len(chats) = 1

\* the last message of the chat id is the user's and a request for it is out
Sent(cs, requests, id) ==
    /\ \E i \in 1..Len(cs) :
         /\ cs[i].id = id
         /\ cs[i].messages # << >>
         /\ cs[i].messages[Len(cs[i].messages)].role = "user"
    /\ \E r \in 1..Len(requests) : requests[r].chatId = id

\* C13: every send that passes the local checks appends the user's message to
\* the target chat and issues a request before the response arrives, also when
\* the target chat is created by this send because none was selected.
C13_SendAppendsAndRequests ==
    [][ /\ (currentChatId = Null /\ currentChatId' # Null)
             => /\ Sent(chats', inflight', currentChatId')
                /\ Len(inflight') = Len(inflight) + 1
        /\ Len(inflight') > Len(inflight)
             => Sent(chats', inflight', currentChatId') ]_vars

\* C14: when a request fails or is answered with a non-success status, the
\* step that handles it appends no assistant message, leaves every chat as it
\* was after the user's message was appended, shows the error and sets the
\* loading flag to false.
C14_FailureKeepsConversation ==
    [][ \A i \in 1..Len(inflight) :
          (/\ inflight[i].reply.kind \in { "notok", "rejected" }
           /\ inflight' = RemoveAt(inflight, i))
            => /\ chats' = chats
               /\ isLoading' = FALSE
               /\ toast' = inflight[i].reply.error ]_vars

C14_Witness ==
    /\ toast = NotOk.error
    /\ ~isLoading
    /\ inflight = << >>
    /\ \E i \in 1..Len(chats) :
         /\ Len(chats[i].messages) = 1
         /\ chats[i].messages[1].role = "user"

\* C15: in every reachable client state the chats are ordered by their time
\* of last update, latest first (the clock never goes back).
C15_ChatsSortedByUpdate ==
    \A i \in 1..Len(chats) : \A j \in 1..Len(chats) :
        i < j => chats[i].updatedAt >= chats[j].updatedAt

\* a chat created earlier stands in front of a later one after a send to it
C15_Witness ==
    /\ Len(chats) = 2
    /\ chats[1].id < chats[2].id
    /\ chats[1].updatedAt > chats[2].updatedAt
    /\ chats[1].messages # << >>

\* the chat of cs with the id of c, if there is one
Same(cs, c) == { k \in 1..Len(cs) : cs[k].id = c.id }

\* C16: a chat's title is assigned from the message exactly when a user
\* message is appended to a chat without messages, and never changes again:
\* a chat without messages is titled New Chat, a step that appends the first
\* message titles the chat from it, and no step changes the title of a chat
\* that has messages.
C16_TitleSetOnce ==
    [][ \A i \in 1..Len(chats) : \A k \in Same(chats', chats[i]) :
          /\ chats'[k].messages = << >> => chats'[k].title = NewChatTitle
          /\ (chats[i].messages = << >> /\ chats'[k].messages # << >>)
               => /\ chats'[k].messages[1].role = "user"
                  /\ chats'[k].title =
                        generateChatTitle(chats'[k].messages[1].content)
          /\ chats[i].messages # << >> => chats'[k].title = chats[i].title ]_vars

\* a chat opened by the question holds a later message and its first title
C16_Witness ==
    \E i \in 1..Len(chats) :
        /\ Len(chats[i].messages) >= 2
        /\ chats[i].messages[1].content = TextQuestion
        /\ chats[i].messages[2].content = TextHi
        /\ chats[i].title =
             << "W", "h", "a", "t", " ", "i", "s", " ", "t", "h", "e", " ",
                "c", "a", "p", "i", "t", "a", "l", " ", "o", "f", " ",
                "F", "r", "a", "n", "c", "e", "?", ".", ".", "." >>

\* the ids of the chats
Ids(cs) == { cs[i].id : i \in 1..Len(cs) }

\* C17: removeChat(id) removes exactly the chat with that id; the selection
\* becomes null if that chat was the current one and is unchanged otherwise.
C17_RemoveExactlyOne ==
    [][ \A id \in Ids(chats) \ Ids(chats') :
          /\ chats' = SelectSeq(chats, LAMBDA c : c.id # id)
          /\ Len(chats') = Len(chats) - 1
          /\ currentChatId = id => currentChatId' = Null
          /\ currentChatId # id => currentChatId' = currentChatId ]_vars

\* the current chat was removed and another one is left
C17_Witness ==
    /\ nextId > 2
    /\ Len(chats) = 1
    /\ currentChatId = Null
    /\ isLoading = FALSE
    /\ inflight = << >>

\* C18: at most one request is in flight on the client at every moment, and
\* the loading flag is true exactly while one is, whatever the user submits,
\* selects, creates or deletes meanwhile.
C18_OneRequestInFlight ==
    /\ Len(inflight) <= 1
    /\ isLoading <=> inflight # << >>

\* a request is out while the user has moved to another chat
C18_Witness ==
    /\ isLoading
    /\ Len(inflight) = 1
    /\ currentChatId # Null
    /\ currentChatId # inflight[1].chatId

-----------------------------------------------------------------------------
(* ChatInput: the microphone *)

\* streams handed out over one run
MaxStreams == 3

micOnly == << chats, currentChatId, isLoading, inflight, nextId, now,
              classifierVars, serverVars >>

\* the effect of the mount: getUserMedia settles, the stream is stopped at once
ProbeSettles ==
    /\ \E i \in 1..Len(pendingMedia) :
         /\ pendingMedia[i] = "probe"
         /\ pendingMedia' = RemoveAt(pendingMedia, i)
    /\ \/ /\ streams' = Append(streams, [live |-> FALSE, recorder |-> "none"])
          /\ microphoneAvailable' = TRUE
          /\ UNCHANGED toast
       \/ /\ microphoneAvailable' = FALSE
          /\ toast' = "Microphone access is not available"
          /\ UNCHANGED streams
    /\ UNCHANGED << inputMounted, isRecording, recorded, mediaRecorderRef,
                    micOnly >>

\* the microphone button while not recording: startRecording up to its await
startRecording ==
    /\ inputMounted
    /\ ~isRecording
    /\ ~(isLoading \/ recorded \/ ~microphoneAvailable)
    /\ Len(streams) + Len(pendingMedia) < MaxStreams
    /\ pendingMedia' = Append(pendingMedia, "record")
    /\ UNCHANGED << inputMounted, isRecording, microphoneAvailable, recorded,
                    mediaRecorderRef, streams, toast, micOnly >>

\* startRecording after its await: the stream is refused, or it is granted and
\* the recorder starts, or it is granted and new MediaRecorder or start throws
RecordSettles ==
    /\ \E i \in 1..Len(pendingMedia) :
         /\ pendingMedia[i] = "record"
         /\ pendingMedia' = RemoveAt(pendingMedia, i)
    /\ \/ /\ microphoneAvailable' = FALSE
          /\ toast' = "Failed to access microphone"
          /\ UNCHANGED << streams, mediaRecorderRef, isRecording >>
       \/ /\ streams' = Append(streams, [live |-> TRUE, recorder |-> "recording"])
          /\ mediaRecorderRef' = Len(streams) + 1
          /\ isRecording' = TRUE
          /\ UNCHANGED << microphoneAvailable, toast >>
       \/ /\ streams' = Append(streams, [live |-> TRUE, recorder |-> "none"])
          /\ microphoneAvailable' = FALSE
          /\ toast' = "Failed to access microphone"
          /\ UNCHANGED << mediaRecorderRef, isRecording >>
    /\ UNCHANGED << inputMounted, recorded, micOnly >>

\* the microphone button while recording
stopRecording ==
    /\ inputMounted
    /\ isRecording
    /\ mediaRecorderRef # Null
    /\ streams[mediaRecorderRef].recorder = "recording"
    /\ streams' = [streams EXCEPT ![mediaRecorderRef].recorder = "stopping"]
    /\ isRecording' = FALSE
    /\ UNCHANGED << inputMounted, microphoneAvailable, recorded,
                    mediaRecorderRef, pendingMedia, toast, micOnly >>

\* mediaRecorder.onstop
onstop ==
    /\ \E i \in 1..Len(streams) :
         /\ streams[i].recorder = "stopping"
         /\ streams' = [streams EXCEPT ![i] = [live |-> FALSE, recorder |-> "inactive"]]
    /\ recorded' = TRUE
    /\ UNCHANGED << inputMounted, isRecording, microphoneAvailable,
                    mediaRecorderRef, pendingMedia, toast, micOnly >>

\* the recording is discarded, or sent with the form
clearMedia ==
    /\ inputMounted
    /\ recorded
    /\ recorded' = FALSE
    /\ UNCHANGED << inputMounted, isRecording, microphoneAvailable,
                    mediaRecorderRef, streams, pendingMedia, toast, micOnly >>

\* ChatInput is unmounted: it has no effect with a cleanup
Unmount ==
    /\ inputMounted
    /\ inputMounted' = FALSE
    /\ UNCHANGED << isRecording, microphoneAvailable, recorded,
                    mediaRecorderRef, streams, pendingMedia, toast, micOnly >>

NextMicrophone ==
    \/ ProbeSettles
    \/ startRecording
    \/ RecordSettles
    \/ stopRecording
    \/ onstop
    \/ clearMedia
    \/ Unmount

SpecMicrophone == InitClient /\ [][NextMicrophone]_vars

\* stopRecording can still release the stream i
Releasable(i) ==
    /\ inputMounted
    /\ isRecording
    /\ mediaRecorderRef = i
    /\ streams[i].recorder = "recording"

\* C19: every microphone stream the capture UI acquires is released on every
\* exit path: a stream with live tracks is being released by onstop or can
\* still be released by stopRecording, and none is left once the component
\* is gone.
C19_StreamsReleased ==
    \A i \in 1..Len(streams) :
        streams[i].live => streams[i].recorder = "stopping" \/ Releasable(i)

-----------------------------------------------------------------------------
(* Properties of the endpoint, continued *)

\* the elements of the history a request supplies: those of the array its
\* history field parses to
Supplied(req) ==
    IF req.history.kind = "string" /\ req.history.syntax = "ok"
       /\ req.history.value.t = "array"
    THEN req.history.value.items
    ELSE << >>

\* an element with its role coerced to user unless it is user or assistant
Coerced(msg) ==
    [ role |-> IF msg.role \in { "user", "assistant" } THEN msg.role ELSE "user",
      content |-> msg.content ]

\* the system instruction, the elements given, and the trimmed message
Conversation(type, elements, req) ==
    << IF type = "text" THEN TextSystem ELSE SpeechSystem >>
    \o [ i \in 1..Len(elements) |-> Coerced(elements[i]) ]
    \o << [ role |-> "user", content |-> trim(req.message.text) ] >>

-----------------------------------------------------------------------------
(* Properties of the client, continued *)

\* C22: a successful response changes only the chat its send was issued for:
\* the step that handles it appends one assistant message, with media exactly
\* when the answer is an image or audio and of that modality, directly after
\* that send's user message if the chat still exists; it leaves every other
\* chat as it was and neither removes nor recreates a chat, whatever the user
\* selected, created or deleted meanwhile.
C22_AnswerGoesToItsChat ==
    [][ \A r \in 1..Len(inflight) :
          (inflight[r].reply.kind = "ok" /\ inflight' = RemoveAt(inflight, r))
            => /\ Ids(chats') = Ids(chats)
               /\ Len(chats') = Len(chats)
               /\ \A i \in 1..Len(chats) : \A k \in Same(chats', chats[i]) :
                    IF chats[i].id # inflight[r].chatId
                    THEN chats'[k] = chats[i]
                    ELSE LET before == chats[i].messages
                             after == chats'[k].messages
                             answer == after[Len(after)]
                             reply == inflight[r].reply
                         IN  /\ Len(after) = Len(before) + 1
                             /\ SubSeq(after, 1, Len(before)) = before
                             /\ before[Len(before)].role = "user"
                             /\ before[Len(before)].content = inflight[r].message
                             /\ answer.role = "assistant"
                             /\ answer.content = reply.content
                             /\ answer.media =
                                  IF reply.type \in { "image", "audio" }
                                  THEN [type |-> reply.type, url |-> reply.url]
                                  ELSE NoMedia ]_vars

\* an image answer has landed in a chat the user has left for another one
C22_Witness ==
    /\ ~isLoading
    /\ inflight = << >>
    /\ Len(chats) = 2
    /\ \E i \in 1..2 :
         /\ chats[i].id # currentChatId
         /\ Len(chats[i].messages) = 2
         /\ chats[i].messages[2].role = "assistant"
         /\ chats[i].messages[2].media.type = "image"
         /\ chats[3 - i].messages = << >>

\* C23: the messages of a chat are append-only: across every step, for each
\* chat that exists before and after it, the messages before the step are a
\* prefix of the messages after it.
C23_MessagesAppendOnly ==
    [][ \A i \in 1..Len(chats) : \A k \in Same(chats', chats[i]) :
          /\ Len(chats'[k].messages) >= Len(chats[i].messages)
          /\ SubSeq(chats'[k].messages, 1, Len(chats[i].messages))
               = chats[i].messages ]_vars

\* a chat holds a question and the text answered to it
C23_Witness ==
    \E i \in 1..Len(chats) :
        /\ Len(chats[i].messages) = 2
        /\ chats[i].messages[1].role = "user"
        /\ chats[i].messages[1].content = TextQuestion
        /\ chats[i].messages[2].role = "assistant"
        /\ chats[i].messages[2].content = OkText.content

-----------------------------------------------------------------------------
(* Properties of the endpoint, continued *)

\* the provider calls one attempt of the routine of the type makes, in order
Routine(type) ==
    CASE type = "text" -> << "chat" >>
      [] type = "image" -> << "image" >>
      [] type = "audio" -> << "chat", "speech" >>
      [] OTHER -> << >>

\* C24: a request dispatches one generation routine, the one of its
\* classification, one attempt after the other through retryWithBackoff: no
\* call is made for an unclassified request, the calls made are those of
\* that routine (the speech call only after its completion call), each
\* attempt starts at most once per retry count, and the provider is called at
\* most 4 times for text and image and at most 8 times for audio.
C24_OneRoutineBoundedCalls ==
    LET routine == Routine(responseType)
    IN  /\ responseType = "none" => calls = << >>
        /\ \A i \in 1..Len(calls) :
             /\ \E k \in 1..Len(routine) : calls[i].api = routine[k]
             /\ calls[i].api = "speech" => i > 1 /\ calls[i - 1].api = "chat"
        /\ Len(attempts) <= retryCount + 1
        /\ retryCount <= 3
        /\ Len(calls) <= Len(routine) * (retryCount + 1)
        /\ responseType \in { "text", "image" } => Len(calls) <= 4
        /\ responseType = "audio" => Len(calls) <= 8

\* an audio request that used all its attempts: eight calls of the provider
C24_Witness ==
    /\ responseType = "audio"
    /\ Len(calls) = 8
    /\ Len(attempts) = 4
    /\ pc = "responded"

-----------------------------------------------------------------------------
(* Properties of the client, continued *)

\* C25: in every reachable client state the current selection is null or the
\* id of a chat in the list, whatever chats were created, selected or deleted
\* and whatever was sent or answered.
C25_SelectionIsAChat ==
    currentChatId = Null \/ currentChatId \in Ids(chats)

\* the first chat is selected, still empty, after a later chat was deleted
C25_Witness ==
    /\ nextId = 3
    /\ Len(chats) = 1
    /\ chats[1].id = 1
    /\ chats[1].messages = << >>
    /\ currentChatId = 1
    /\ inflight = << >>

=============================================================================
